---------------------------- MODULE Spec2Model ----------------------------
(***************************************************************************)
(* ADNI dataset loader (recognition/vision_transformer_47147571/dataset.py)*)
(*                                                                         *)
(* ADNIDataset.__init__ preprocesses the raw AD and NC directories into    *)
(* AD_processed / NC_processed (once, keyed on directory existence), lists *)
(* the processed directories and builds parallel images / labels lists.    *)
(* __getitem__ indexes those lists.  split_dataset shuffles the index      *)
(* range with the global `random` generator and slices it in two.          *)
(***************************************************************************)
EXTENDS Integers, Sequences, FiniteSets, TLC

VARIABLES
    rawDir,     \* class -> [exists, files : filename -> file content]   (root/split/AD, NC)
    procDir,    \* class -> [exists, files : set of filenames]   (root/split/AD_processed, ...)
    dataset,    \* the outcome of the latest ADNIDataset(...) call
    run,        \* what the latest ADNIDataset(...) call did (history of that call)
    item,       \* the outcome of the latest dataset[idx]
    rng,        \* state of the process-wide generator of module `random`
    lastSplit,  \* the outcome of the latest split_dataset(...) call
    prevSplit   \* the outcome of some earlier split_dataset(...) call that gave a seed

vars == <<rawDir, procDir, dataset, run, item, rng, lastSplit, prevSplit>>

(***************************************************************************)
(* Bounds of the model.                                                    *)
(***************************************************************************)
MaxFiles == 2       \* files in the raw tree, and files in the processed tree, at the start
MaxSize == 4        \* size of the dataset handed to split_dataset
MaxSeed == 1        \* seeds are 0..MaxSeed
MaxIndexSlack == 1  \* indices tried reach this far beyond -len .. len-1

(***************************************************************************)
(* Filenames are character sequences, so that lower() and endswith() are   *)
(* computed.                                                               *)
(***************************************************************************)
FileNames ==
    { <<"a", ".", "p", "n", "g">>,
      <<"b", ".", "J", "P", "G">>,
      <<"c", ".", "t", "x", "t">> }

Classes == {"AD", "NC"}

\* File contents: an undecodable file, or a one-row grayscale image (0 = black).
Corrupt == <<"corrupt">>
BlackImage == <<0, 0, 0>>
BrainImage == <<0, 200, 90>>
Contents == {Corrupt, BlackImage, BrainImage}

NoError == "ok"

SubsetsUpTo(S, n) == {T \in SUBSET S : Cardinality(T) <= n}

\* os.listdir returns the entries in arbitrary order.
ListDir(S) ==
    {f \in [1..Cardinality(S) -> S] : \A i, j \in 1..Cardinality(S) : i # j => f[i] # f[j]}

\* str.lower() on one character
LowerChar(ch) ==
    CASE ch = "J" -> "j"
      [] ch = "P" -> "p"
      [] ch = "G" -> "g"
      [] ch = "N" -> "n"
      [] ch = "E" -> "e"
      [] OTHER -> ch

Lower(s) == [i \in 1..Len(s) |-> LowerChar(s[i])]

EndsWith(s, suffix) ==
    /\ Len(s) >= Len(suffix)
    /\ SubSeq(s, Len(s) - Len(suffix) + 1, Len(s)) = suffix

ImageExtensions ==
    { <<".", "p", "n", "g">>, <<".", "j", "p", "g">>, <<".", "j", "p", "e", "g">> }

\* Faulty variant: the extension test without lower()
IsImageFileCaseSensitive(filename) ==
    \E ext \in ImageExtensions : EndsWith(filename, ext)

\* filename.lower().endswith(('.png', '.jpg', '.jpeg'))
IsImageFile(filename) ==
    \E ext \in ImageExtensions : EndsWith(Lower(filename), ext)

OutputSize == 210

\* cv2.imread: None for a file it cannot decode
ImRead(content) == IF content = Corrupt THEN <<"None">> ELSE content

IsNone(x) == x = <<"None">>

\* cv2.threshold(image, 0, 255, THRESH_BINARY + THRESH_OTSU): Otsu's threshold of an
\* image whose background is black separates the zero pixels from the others; on a
\* uniform black image the threshold is 0 and the mask is all zero.
Threshold(image) == [i \in 1..Len(image) |-> IF image[i] > 0 THEN 255 ELSE 0]

\* cv2.findNonZero: the coordinates of the non-zero pixels (0-based)
FindNonZero(binary) == {i - 1 : i \in {k \in 1..Len(binary) : binary[k] # 0}}

SetMin(S) == CHOOSE m \in S : \A k \in S : m <= k
SetMax(S) == CHOOSE m \in S : \A k \in S : m >= k

\* cv2.boundingRect: <<x, w>> of the smallest span holding all the coordinates; on an
\* empty coordinate list a build that accepts it returns the empty rectangle.
BoundingRect(coords) ==
    IF coords = {} THEN <<0, 0>>
    ELSE <<SetMin(coords), SetMax(coords) - SetMin(coords) + 1>>

\* image[y:y+h, x:x+w]
Crop(image, rect) == SubSeq(image, rect[1] + 1, rect[1] + rect[2])

\* _crop_brain_region.  brRaises: whether this build's cv2.boundingRect rejects an
\* empty coordinate list.
CropBrainRegion(image, brRaises) ==
    LET binary == Threshold(image)
        coords == FindNonZero(binary)
    IN  IF coords = {} /\ brRaises
        THEN [err |-> "cv2.error", cropped |-> <<>>]
        ELSE [err |-> NoError, cropped |-> Crop(image, BoundingRect(coords))]

\* cv2.resize(cropped, (210, 210), interpolation=INTER_CUBIC): asserts a non-empty source
Resize(cropped) ==
    IF Len(cropped) = 0
    THEN [err |-> "cv2.error", size |-> 0]
    ELSE [err |-> NoError, size |-> OutputSize]

\* _process_image: the file is written (cv2.imwrite) exactly when err is NoError;
\* zeroCrop records that _crop_brain_region returned a zero-area crop.
\* cv2.threshold raises on the None that cv2.imread returns for an undecodable file.
ProcessImage(content, brRaises) ==
    LET image == ImRead(content)
    IN  IF IsNone(image)
        THEN [err |-> "cv2.error", zeroCrop |-> FALSE]
        ELSE LET c == CropBrainRegion(image, brRaises)
             IN  IF c.err # NoError
                 THEN [err |-> c.err, zeroCrop |-> FALSE]
                 ELSE LET r == Resize(c.cropped)
                      IN  [err |-> r.err, zeroCrop |-> Len(c.cropped) = 0]

NoFile == <<>>

\* _process_directory, from position i of the listing: the files written so far are
\* `out`; the first failing image aborts the loop.
RECURSIVE ProcessDirectory(_, _, _, _, _)
ProcessDirectory(listing, i, files, brRaises, out) ==
    IF i > Len(listing)
    THEN [err |-> NoError, out |-> out, failedOn |-> NoFile, zeroCrop |-> FALSE]
    ELSE IF ~IsImageFile(listing[i])
    THEN ProcessDirectory(listing, i + 1, files, brRaises, out)
    ELSE LET r == ProcessImage(files[listing[i]], brRaises)
         IN  IF r.err # NoError
             THEN [err |-> r.err, out |-> out, failedOn |-> listing[i],
                   zeroCrop |-> r.zeroCrop]
             ELSE ProcessDirectory(listing, i + 1, files, brRaises, out \cup {listing[i]})

Skipped == [err |-> NoError, failedOn |-> NoFile, zeroCrop |-> FALSE, did |-> "skipped"]

\* Faulty variant: preprocessing that does not look whether the output directory exists
PreprocessAlways(raw, proc, listing, brRaises) ==
    IF ~raw.exists
    THEN [dir |-> [exists |-> TRUE, files |-> {}], err |-> "FileNotFoundError",
          failedOn |-> NoFile, zeroCrop |-> FALSE, did |-> "aborted"]
    ELSE LET r == ProcessDirectory(listing, 1, raw.files, brRaises, {})
         IN  [dir |-> [exists |-> TRUE, files |-> r.out], err |-> r.err,
              failedOn |-> r.failedOn, zeroCrop |-> r.zeroCrop,
              did |-> IF r.err = NoError THEN "completed" ELSE "aborted"]

\* One branch of preprocess_images: if the output directory is missing, os.makedirs it
\* and _process_directory the input directory (os.listdir raises FileNotFoundError on a
\* missing input directory, after the output directory was made).
PreprocessClass(raw, proc, listing, brRaises) ==
    IF proc.exists
    THEN [dir |-> proc] @@ Skipped
    ELSE IF ~raw.exists
    THEN [dir |-> [exists |-> TRUE, files |-> {}], err |-> "FileNotFoundError",
          failedOn |-> NoFile, zeroCrop |-> FALSE, did |-> "aborted"]
    ELSE LET r == ProcessDirectory(listing, 1, raw.files, brRaises, {})
         IN  [dir |-> [exists |-> TRUE, files |-> r.out], err |-> r.err,
              failedOn |-> r.failedOn, zeroCrop |-> r.zeroCrop,
              did |-> IF r.err = NoError THEN "completed" ELSE "aborted"]

ProcessedDirName(c) == IF c = "AD" THEN "AD_processed" ELSE "NC_processed"

\* os.path.join(processed_dir, f)
JoinPath(c, f) == <<ProcessedDirName(c), f>>

\* [os.path.join(dir, f) for f in os.listdir(dir)]
Paths(c, listing) == [i \in 1..Len(listing) |-> JoinPath(c, listing[i])]

\* Faulty variant: every sample labelled 1
LabelsAllOnes(adImages, ncImages) ==
    [i \in 1..(Len(adImages) + Len(ncImages)) |-> 1]

\* [1] * len(self.ad_images) + [0] * len(self.nc_images)
Labels(adImages, ncImages) ==
    [i \in 1..Len(adImages) |-> 1] \o [i \in 1..Len(ncImages) |-> 0]

NoDataset == [status |-> "none", images |-> <<>>, labels |-> <<>>]
Failed(err) == [status |-> err, images |-> <<>>, labels |-> <<>>]

NoRun == [did |-> [c \in Classes |-> "none"], failedOn |-> NoFile,
          failedClass |-> "none", zeroCrop |-> FALSE]

NoItem == [status |-> "none", idx |-> 0, path |-> <<>>, label |-> -1]

\* seed=None, and seed=k
None == [given |-> FALSE, val |-> 0]
Seed(k) == [given |-> TRUE, val |-> k]

NoSplit == [status |-> "none", seed |-> None, ratio |-> <<0, 1>>, moved |-> FALSE,
            train |-> <<>>, val |-> <<>>]

RawDirs ==
    {[exists |-> FALSE, files |-> <<>>]} \cup
    {[exists |-> TRUE, files |-> f] :
        f \in UNION {[S -> Contents] : S \in SubsetsUpTo(FileNames, MaxFiles)}}

ProcDirs ==
    {[exists |-> FALSE, files |-> {}]} \cup
    {[exists |-> TRUE, files |-> S] : S \in SubsetsUpTo(FileNames, MaxFiles)}

RawNames(raw) == IF raw.exists THEN DOMAIN raw.files ELSE {}

(***************************************************************************)
(* ADNIDataset(root, split): the whole constructor.                        *)
(***************************************************************************)
Construct ==
    /\ \E adIn \in ListDir(RawNames(rawDir["AD"])), ncIn \in ListDir(RawNames(rawDir["NC"])),
          brRaises \in BOOLEAN :
        LET ad == PreprocessClass(rawDir["AD"], procDir["AD"], adIn, brRaises)
        IN  IF ad.err # NoError
            THEN /\ procDir' = [procDir EXCEPT !["AD"] = ad.dir]
                 /\ dataset' = Failed(ad.err)
                 /\ run' = [did |-> [c \in Classes |-> IF c = "AD" THEN ad.did ELSE "none"],
                            failedOn |-> ad.failedOn, failedClass |-> "AD",
                            zeroCrop |-> ad.zeroCrop]
            ELSE LET nc == PreprocessClass(rawDir["NC"], procDir["NC"], ncIn, brRaises)
                 IN  IF nc.err # NoError
                     THEN /\ procDir' = [procDir EXCEPT !["AD"] = ad.dir, !["NC"] = nc.dir]
                          /\ dataset' = Failed(nc.err)
                          /\ run' = [did |-> [c \in Classes |->
                                                 IF c = "AD" THEN ad.did ELSE nc.did],
                                     failedOn |-> nc.failedOn, failedClass |-> "NC",
                                     zeroCrop |-> nc.zeroCrop]
                     ELSE \E adOut \in ListDir(ad.dir.files), ncOut \in ListDir(nc.dir.files) :
                            LET adImages == Paths("AD", adOut)
                                ncImages == Paths("NC", ncOut)
                            IN  /\ procDir' = [procDir EXCEPT !["AD"] = ad.dir,
                                                              !["NC"] = nc.dir]
                                /\ dataset' = [status |-> "ok",
                                               images |-> adImages \o ncImages,
                                               labels |-> Labels(adImages, ncImages)]
                                /\ run' = [did |-> [c \in Classes |->
                                                       IF c = "AD" THEN ad.did ELSE nc.did],
                                           failedOn |-> NoFile, failedClass |-> "none",
                                           zeroCrop |-> FALSE]
    /\ item' = NoItem
    /\ UNCHANGED <<rawDir, rng, lastSplit, prevSplit>>

(***************************************************************************)
(* dataset[idx]                                                            *)
(***************************************************************************)
IndexError == [err |-> "IndexError", val |-> <<>>]

\* Faulty variant: indexing that wraps every index into range
ListIndexWrapping(list, idx) ==
    IF Len(list) = 0 THEN IndexError
    ELSE [err |-> NoError, val |-> list[(idx % Len(list)) + 1]]

\* list[idx] of a Python list: a negative index counts from the end
ListIndex(list, idx) ==
    LET k == IF idx < 0 THEN idx + Len(list) ELSE idx
    IN  IF k < 0 \/ k >= Len(list) THEN IndexError
        ELSE [err |-> NoError, val |-> list[k + 1]]

\* __len__
DatasetLen == Len(dataset.images)

Indices == (0 - DatasetLen - MaxIndexSlack)..(DatasetLen + MaxIndexSlack - 1)

\* __getitem__ (transform=None): the image is the decoded file at img_path
GetItem ==
    /\ dataset.status = "ok"
    /\ \E idx \in Indices :
        LET p == ListIndex(dataset.images, idx)
            l == ListIndex(dataset.labels, idx)
        IN  item' = IF p.err # NoError
                    THEN [status |-> p.err, idx |-> idx, path |-> <<>>, label |-> -1]
                    ELSE [status |-> "ok", idx |-> idx, path |-> p.val, label |-> l.val]
    /\ UNCHANGED <<rawDir, procDir, dataset, run, rng, lastSplit, prevSplit>>

(***************************************************************************)
(* Module `random`: one process-wide generator.  Its state is abstracted   *)
(* to RngModulus values stepped by a full-period congruence; seed() maps a *)
(* seed to a state, shuffle() is the library's Fisher-Yates loop.          *)
(***************************************************************************)
RngModulus == 8

RngStep(s) == (5 * s + 3) % RngModulus

\* random.seed(seed): the state is a function of the seed alone
SeedState(seed) == (3 * seed + 1) % RngModulus

BitLength(n) == IF n < 2 THEN n ELSE IF n < 4 THEN 2 ELSE IF n < 8 THEN 3 ELSE 4

Pow2(k) == IF k = 0 THEN 1 ELSE IF k = 1 THEN 2 ELSE IF k = 2 THEN 4 ELSE IF k = 3 THEN 8 ELSE 16

\* Random._randbelow(n): draw bit_length(n) bits until the draw is below n
RECURSIVE RandBelow(_, _)
RandBelow(s, n) ==
    LET s1 == RngStep(s)
        r == s1 % Pow2(BitLength(n))
    IN  IF r < n THEN [state |-> s1, val |-> r] ELSE RandBelow(s1, n)

Swap(x, i, j) == [x EXCEPT ![i] = x[j], ![j] = x[i]]

\* random.shuffle(x): for i in reversed(range(1, len(x))): j = randbelow(i + 1); swap
\* (i is the 1-based position here)
RECURSIVE Shuffle(_, _, _)
Shuffle(x, i, s) ==
    IF i < 2 THEN [state |-> s, list |-> x]
    ELSE LET d == RandBelow(s, i)
         IN  Shuffle(Swap(x, i, d.val + 1), i - 1, d.state)

\* Faulty variant: the seed is ignored
StateAfterSeedIgnored(seed, state) == state

\* if seed is not None: random.seed(seed)
StateAfterSeed(seed, state) == IF seed = None THEN state ELSE SeedState(seed.val)

\* Clamp a slice bound the way Python does for a list of length n
SliceBound(k, n) ==
    IF k < 0 THEN (IF k + n < 0 THEN 0 ELSE k + n) ELSE (IF k > n THEN n ELSE k)

\* list[:k]
SliceTo(list, k) == SubSeq(list, 1, SliceBound(k, Len(list)))

\* Faulty variant: the second slice starts one index late
SliceFromLate(list, k) == SubSeq(list, SliceBound(k, Len(list)) + 2, Len(list))

\* list[k:]
SliceFrom(list, k) == SubSeq(list, SliceBound(k, Len(list)) + 1, Len(list))

\* Split ratios <<num, den>>: multiples of 1/4, so that the double product
\* split_ratio * dataset_size is exact for every size of the model.
Ratios == {<<n, 4>> : n \in -1..5}

Seeds == {None} \cup {Seed(k) : k \in 0..MaxSeed}

\* Faulty variant: rounding up
SplitPointCeil(ratio, size) == 0 - ((0 - ratio[1] * size) \div ratio[2])

\* int(np.floor(split_ratio * dataset_size))
SplitPoint(ratio, size) == (ratio[1] * size) \div ratio[2]

\* list(range(dataset_size))
Range(n) == [i \in 1..n |-> i - 1]

\* split_dataset(dataset, split_ratio, seed): the index lists of the two Subset views
SplitDataset ==
    /\ dataset.status = "ok"
    /\ \E ratio \in Ratios, seed \in Seeds :
        LET s0 == StateAfterSeed(seed, rng)
            split == SplitPoint(ratio, DatasetLen)
            sh == Shuffle(Range(DatasetLen), DatasetLen, s0)
        IN  /\ rng' = sh.state
            /\ lastSplit' = [status |-> "ok", seed |-> seed, ratio |-> ratio,
                             moved |-> s0 # rng,
                             train |-> SliceTo(sh.list, split),
                             val |-> SliceFrom(sh.list, split)]
    /\ prevSplit' \in {prevSplit} \cup
                      (IF lastSplit.status = "ok" /\ lastSplit.seed # None
                       THEN {lastSplit} ELSE {})
    /\ UNCHANGED <<rawDir, procDir, dataset, run, item>>

\* Any other use of the process-wide generator (random.random() elsewhere)
RandomCall ==
    /\ rng' = RngStep(rng)
    /\ UNCHANGED <<rawDir, procDir, dataset, run, item, lastSplit, prevSplit>>

\* A directory listing in a fixed order (any one will do)
SomeListing == CHOOSE f \in ListDir(FileNames) : TRUE

Prefix(list, n) == SubSeq(list, 1, IF n > Len(list) THEN Len(list) ELSE n)

\* The state after ADNIDataset(...) succeeded on processed directories holding
\* size files in all, and before any use of the dataset
LoadedInit ==
    \E size \in 0..MaxSize :
        LET adOut == Prefix(SomeListing, (size + 1) \div 2)
            ncOut == Prefix(SomeListing, size \div 2)
            adImages == Paths("AD", adOut)
            ncImages == Paths("NC", ncOut)
        IN  /\ size <= 2 * Cardinality(FileNames)
            /\ rawDir = [c \in Classes |-> [exists |-> TRUE, files |-> <<>>]]
            /\ procDir = [c \in Classes |->
                            [exists |-> TRUE,
                             files |-> {(IF c = "AD" THEN adOut ELSE ncOut)[i] :
                                          i \in 1..Len(IF c = "AD" THEN adOut ELSE ncOut)}]]
            /\ dataset = [status |-> "ok", images |-> adImages \o ncImages,
                          labels |-> Labels(adImages, ncImages)]
            /\ run = [NoRun EXCEPT !.did = [c \in Classes |-> "skipped"]]
            /\ item = NoItem
            /\ rng \in 0..(RngModulus - 1)
            /\ lastSplit = NoSplit
            /\ prevSplit = NoSplit

SplitNext == SplitDataset \/ RandomCall

SplitSpec == LoadedInit /\ [][SplitNext]_vars

AccessNext == GetItem

AccessSpec == LoadedInit /\ [][AccessNext]_vars

TreeSize(dirs) == Cardinality(dirs["AD"].files) + Cardinality(dirs["NC"].files)

RawTreeSize(dirs) == Cardinality(RawNames(dirs["AD"])) + Cardinality(RawNames(dirs["NC"]))

Init ==
    /\ rawDir \in {d \in [Classes -> RawDirs] : RawTreeSize(d) <= MaxFiles}
    /\ procDir \in {d \in [Classes -> ProcDirs] : TreeSize(d) <= MaxFiles}
    /\ dataset = NoDataset
    /\ run = NoRun
    /\ item = NoItem
    /\ rng = 0
    /\ lastSplit = NoSplit
    /\ prevSplit = NoSplit

Next == Construct

Spec == Init /\ [][Next]_vars

(***************************************************************************)
(* Properties                                                              *)
(***************************************************************************)
SeqToSet(list) == {list[i] : i \in 1..Len(list)}

ValidRatio(ratio) == 0 < ratio[1] /\ ratio[1] < ratio[2]

\* C1: for a valid split ratio the two index lists returned by split_dataset are
\* disjoint and together hold every index 0..N-1 exactly once, so their lengths add
\* up to len(dataset).
C1_Partition ==
    (lastSplit.status = "ok" /\ ValidRatio(lastSplit.ratio)) =>
        LET all == lastSplit.train \o lastSplit.val
        IN  /\ Len(lastSplit.train) + Len(lastSplit.val) = DatasetLen
            /\ SeqToSet(lastSplit.train) \cap SeqToSet(lastSplit.val) = {}
            /\ SeqToSet(all) = 0..(DatasetLen - 1)
            /\ \A i, j \in 1..Len(all) : i # j => all[i] # all[j]

C1_Witness ==
    /\ lastSplit.status = "ok"
    /\ ValidRatio(lastSplit.ratio)
    /\ DatasetLen = MaxSize
    /\ Len(lastSplit.train) >= 2
    /\ Len(lastSplit.val) >= 1
    /\ lastSplit.train \o lastSplit.val # Range(DatasetLen)

C3_SeedDeterminism ==
    (/\ prevSplit.status = "ok"
     /\ lastSplit.status = "ok"
     /\ lastSplit.seed # None
     /\ prevSplit.seed = lastSplit.seed
     /\ prevSplit.ratio = lastSplit.ratio) =>
        /\ prevSplit.train = lastSplit.train
        /\ prevSplit.val = lastSplit.val

\* The two calls found the generator in different states: seeding changed the state
\* before one of them and not before the other.
C3_Witness ==
    /\ prevSplit.status = "ok"
    /\ lastSplit.status = "ok"
    /\ lastSplit.seed # None
    /\ prevSplit.seed = lastSplit.seed
    /\ prevSplit.ratio = lastSplit.ratio
    /\ prevSplit.moved # lastSplit.moved
    /\ DatasetLen >= 3
    /\ lastSplit.train \o lastSplit.val # Range(DatasetLen)

\* C4: split_dataset fails with an invalid-split-ratio error, returning no views,
\* whenever the ratio is outside (0,1) or either partition would be empty.
C4_InvalidRatioRejected ==
    (/\ lastSplit.status # "none"
     /\ \/ ~ValidRatio(lastSplit.ratio)
        \/ SplitPoint(lastSplit.ratio, DatasetLen) = 0
        \/ SplitPoint(lastSplit.ratio, DatasetLen) = DatasetLen) =>
        /\ lastSplit.status = "InvalidSplitRatioError"
        /\ lastSplit.train = <<>>
        /\ lastSplit.val = <<>>

InDir(path, c) == path[1] = ProcessedDirName(c)

\* C5: after construction images and labels have equal length, a sample's label is 1
\* exactly when its path lies in AD_processed and 0 exactly when it lies in
\* NC_processed, and every AD_processed sample comes before every NC_processed sample.
C5_LabelsAligned ==
    dataset.status = "ok" =>
        /\ Len(dataset.images) = Len(dataset.labels)
        /\ \A i \in 1..Len(dataset.images) :
            /\ dataset.labels[i] = 1 <=> InDir(dataset.images[i], "AD")
            /\ dataset.labels[i] = 0 <=> InDir(dataset.images[i], "NC")
        /\ \A i, j \in 1..Len(dataset.images) :
            (InDir(dataset.images[i], "AD") /\ InDir(dataset.images[j], "NC")) => i < j

C5_Witness ==
    /\ dataset.status = "ok"
    /\ \E i, j \in 1..Len(dataset.images) :
        InDir(dataset.images[i], "AD") /\ InDir(dataset.images[j], "NC")
    /\ run.did["AD"] = "completed"

\* C6: a construction leaves a processed directory that already exists exactly as it
\* was (same file set), whatever it holds and whatever happens to the other class.
C6_ExistingOutputUntouched ==
    [][Construct =>
        \A c \in Classes : procDir[c].exists => procDir'[c] = procDir[c]]_vars

\* A construction skipped AD_processed, which does not hold what preprocessing would
\* write, and created NC_processed.
C6_Witness ==
    /\ run.did["AD"] = "skipped"
    /\ run.did["NC"] = "completed"
    /\ rawDir["AD"].exists
    /\ \E f \in DOMAIN rawDir["AD"].files :
        f \notin procDir["AD"].files /\ rawDir["AD"].files[f] = BrainImage /\ Len(f) > 0
    /\ procDir["NC"].files # {}

\* The lower-cased name ends in .png, .jpg or .jpeg
LowerEndsInImageExtension(name) ==
    \E ext \in ImageExtensions :
        /\ Len(name) >= Len(ext)
        /\ \A i \in 1..Len(ext) : LowerChar(name[Len(name) - Len(ext) + i]) = ext[i]

\* C7: when a construction creates a class's output directory and preprocessing of it
\* completes without error, the directory's filenames are exactly the input
\* directory's filenames whose lower-cased name ends in .png, .jpg or .jpeg, and the
\* raw input directories are unchanged.
C7_OutputIsFilteredInput ==
    [][Construct =>
        /\ rawDir' = rawDir
        /\ \A c \in Classes :
            (~procDir[c].exists /\ (dataset'.status = "ok" \/ run'.did[c] = "completed")) =>
                procDir'[c].files =
                    {f \in DOMAIN rawDir[c].files : LowerEndsInImageExtension(f)}]_vars

C7_Witness ==
    \E c \in Classes :
        /\ run.did[c] = "completed"
        /\ DOMAIN rawDir[c].files = {<<"b", ".", "J", "P", "G">>, <<"c", ".", "t", "x", "t">>}
        /\ procDir[c].files = {<<"b", ".", "J", "P", "G">>}

\* C8: every construction attempted while a raw input directory is missing fails with a
\* directory-not-found error, also when it repeats a construction that already failed
\* for that reason: a construction that follows one that failed with the
\* directory-not-found error (the raw directories are the same, one is still missing)
\* fails with it again.
C8_MissingInputFails ==
    [][Construct =>
        (dataset.status = "FileNotFoundError" => dataset'.status = "FileNotFoundError")]_vars

\* C9 as stated: every index outside 0..len-1, negative ones included, fails with an
\* index-out-of-range error and returns no pair.
C9_OutsideZeroToLenFails ==
    (item.status # "none" /\ (item.idx < 0 \/ item.idx >= DatasetLen)) =>
        item.status = "IndexError"

\* C9 (amended): every index outside -len..len-1 fails with an index-out-of-range
\* error and returns no (image, label) pair.
C9_OutsideListRangeFails ==
    (item.status # "none" /\ (item.idx < 0 - DatasetLen \/ item.idx >= DatasetLen)) =>
        /\ item.status = "IndexError"
        /\ item.path = <<>>
        /\ item.label = -1

C9_Witness ==
    /\ item.status = "IndexError"
    /\ item.idx < 0 - DatasetLen
    /\ DatasetLen >= 2

\* C10: preprocessing a fully black image fails with an empty-foreground error, no
\* zero-area crop is computed and no processed file is written for it.
C10_EmptyForegroundError ==
    (/\ run.failedOn # NoFile
     /\ rawDir[run.failedClass].files[run.failedOn] = BlackImage) =>
        /\ dataset.status = "EmptyForegroundError"
        /\ ~run.zeroCrop
        /\ run.failedOn \notin procDir[run.failedClass].files

=============================================================================
